---- MODULE Spec2Model ----
(***************************************************************************)
(* Waygen: flight metrics and camera footprint (geospatial.js), path       *)
(* generation (useMissionGeneration) and the mission import / export       *)
(* handlers of SidebarMain.                                                *)
(*                                                                         *)
(* The specifications of the module:                                       *)
(*   SpecMetrics    calls of the pure flight-metrics functions on inputs   *)
(*                  drawn from bounded sets of JavaScript values;          *)
(*   SpecGeometry   calls of calculateFootprint and of the path generator; *)
(*   Spec           the sidebar's import handlers over the store;          *)
(*   SpecRoundTrip  export of a mission and import of what was exported;   *)
(*   SpecGenerate   path generation, its timers and the flight warning;    *)
(*   SpecWarning    the Generate Path button and the warning effect, run   *)
(*                  by React whenever a warning check is pending;          *)
(*   SpecRestore    path generation over settings restored by an import.   *)
(***************************************************************************)
EXTENDS Integers, Sequences, FiniteSets, Bags, TLC

VARIABLES
    call,                   \* SpecMetrics: the function called and its arguments
    ret,                    \* SpecMetrics: what the call returned (or that it threw)
    settings,               \* store: mission settings
    waypoints,              \* store: waypoint list
    currentMissionFilename, \* store: filename of the imported mission
    currentPolygon,         \* App state: boundary polygon
    showDownloadDialog,     \* SidebarMain state
    files,                  \* mission files the user can pick for import
    pending,                \* processFile calls awaiting parseImport
    timers,                 \* pending setTimeout callbacks
    calculatedMaxSpeed,     \* store: max safe speed of the last metrics calculation
    nextId,                 \* generateUUID: next fresh token
    last,                   \* the handler that ran last, with its inputs
    showFlightWarning,      \* useMissionGeneration state: the warning dialog is open
    pendingWarningCheck     \* useMissionGeneration state: a warning check is due

metricVars == <<call, ret>>
warningVars == <<showFlightWarning, pendingWarningCheck>>
appVars == <<settings, waypoints, currentMissionFilename, currentPolygon,
             showDownloadDialog, files, pending, timers, calculatedMaxSpeed, nextId, last,
             showFlightWarning, pendingWarningCheck>>
vars == <<call, ret, settings, waypoints, currentMissionFilename, currentPolygon,
          showDownloadDialog, files, pending, timers, calculatedMaxSpeed, nextId, last,
          showFlightWarning, pendingWarningCheck>>

(***************************************************************************)
(* Bounds                                                                  *)
(***************************************************************************)
MaxWps == 3        \* longest waypoint list passed to the metrics functions
MaxCoord == 3      \* latitudes 0..MaxCoord (grid units along one meridian)
MaxCadence == 3    \* photo intervals up to MaxCadence seconds
MaxTime == 130     \* mission times 0..MaxTime seconds
MaxMinutes == 2    \* max flight times up to MaxMinutes minutes
MaxDist == 6       \* total distances 0..MaxDist passed to calculateMissionTime
MaxId == 3         \* generateUUID hands out the tokens 1..MaxId
MaxPending == 2    \* processFile calls in flight at the same time
MaxExports == 1    \* mission packages downloaded and kept for a later import
MaxTimers == 1     \* setTimeout callbacks waiting to run
MaxGenTimers == 2  \* setTimeout callbacks of path generation waiting to run

(***************************************************************************)
(* Program constants                                                       *)
(***************************************************************************)
FLIGHT_WARNING_THRESHOLD_PCT == 85   \* FLIGHT_WARNING_THRESHOLD = 0.85, in percent
TAKEOFF_LANDING_OVERHEAD == 0
DEFAULT_HFOV_TENTHS == 821             \* DEFAULT_HFOV = 82.1, in tenths of a degree
DEFAULT_PHOTO_INTERVAL_TENTHS == 55    \* DEFAULT_PHOTO_INTERVAL = 5.5, in tenths of a second

(***************************************************************************)
(* JavaScript numbers.  A value is a record [k, n, d]:                     *)
(*   k = "num"   the rational n/d, d > 0, in lowest terms                  *)
(*   k = "nan" | "inf" | "ninf" | "undef"   NaN, +Infinity, -Infinity,     *)
(*                                          undefined (n = 0, d = 1)       *)
(***************************************************************************)
Abs(x) == IF x < 0 THEN -x ELSE x

RECURSIVE Gcd(_, _)
Gcd(a, b) ==
    \* the remainder is bound as a value, so that it is computed once
    IF b = 0 THEN a ELSE CHOOSE g \in {Gcd(b, r) : r \in {a % b}} : TRUE

Rat(n, d) ==
    LET s == IF d < 0 THEN -1 ELSE 1
    IN  CHOOSE r \in {[k |-> "num", n |-> (s * n) \div g, d |-> (s * d) \div g] :
                          g \in {Gcd(Abs(n), Abs(d))}} : TRUE

Num(n) == [k |-> "num", n |-> n, d |-> 1]
NaN == [k |-> "nan", n |-> 0, d |-> 1]
PosInf == [k |-> "inf", n |-> 0, d |-> 1]
NegInf == [k |-> "ninf", n |-> 0, d |-> 1]
Undefined == [k |-> "undef", n |-> 0, d |-> 1]

\* ToNumber: undefined converts to NaN
ToNumber(x) == IF x.k = "undef" THEN NaN ELSE x

\* !x : undefined, NaN and 0 are falsy
IsFalsy(x) == x.k \in {"undef", "nan"} \/ (x.k = "num" /\ x.n = 0)

IsFiniteNum(x) == x.k = "num"

\* a < b ; any comparison with NaN is false
JsLt(a0, b0) ==
    LET a == ToNumber(a0)
        b == ToNumber(b0)
    IN  /\ a.k # "nan" /\ b.k # "nan"
        /\ CASE a.k = "ninf" -> b.k # "ninf"
             [] a.k = "inf"  -> FALSE
             [] OTHER        -> CASE b.k = "inf"  -> TRUE
                                  [] b.k = "ninf" -> FALSE
                                  [] OTHER        -> a.n * b.d < b.n * a.d

JsEq(a0, b0) ==
    LET a == ToNumber(a0)
        b == ToNumber(b0)
    IN  a.k # "nan" /\ b.k # "nan" /\ a = b

JsLe(a, b) == JsLt(a, b) \/ JsEq(a, b)
JsGe(a, b) == JsLe(b, a)
JsGt(a, b) == JsLt(b, a)

Sign(x) == CASE x.k = "inf" -> 1
             [] x.k = "ninf" -> -1
             [] OTHER -> IF x.n > 0 THEN 1 ELSE IF x.n < 0 THEN -1 ELSE 0

SignedInf(s) == IF s > 0 THEN PosInf ELSE NegInf

\* a / b
JsDiv(a0, b0) ==
    LET a == ToNumber(a0)
        b == ToNumber(b0)
    IN  CASE a.k = "nan" \/ b.k = "nan" -> NaN
          [] a.k # "num" /\ b.k # "num" -> NaN
          [] a.k # "num" -> SignedInf(Sign(a) * (IF Sign(b) < 0 THEN -1 ELSE 1))
          [] b.k # "num" -> Num(0)
          [] b.n = 0 -> IF a.n = 0 THEN NaN ELSE SignedInf(Sign(a))
          [] OTHER -> Rat(a.n * b.d, a.d * b.n)

\* a * b
JsMul(a0, b0) ==
    LET a == ToNumber(a0)
        b == ToNumber(b0)
    IN  CASE a.k = "nan" \/ b.k = "nan" -> NaN
          [] a.k = "num" /\ b.k = "num" -> Rat(a.n * b.n, a.d * b.d)
          [] Sign(a) = 0 \/ Sign(b) = 0 -> NaN
          [] OTHER -> SignedInf(Sign(a) * Sign(b))

\* a + b
JsAdd(a0, b0) ==
    LET a == ToNumber(a0)
        b == ToNumber(b0)
    IN  CASE a.k = "nan" \/ b.k = "nan" -> NaN
          [] a.k = "num" /\ b.k = "num" -> Rat(a.n * b.d + b.n * a.d, a.d * b.d)
          [] a.k = "num" -> b
          [] b.k = "num" -> a
          [] a.k = b.k -> a
          [] OTHER -> NaN

\* Math.round(x): nearest integer, ties towards +Infinity
MathRound(x0) ==
    LET x == ToNumber(x0)
    IN  IF x.k # "num" THEN x
        ELSE Num((2 * x.n + x.d) \div (2 * x.d))

\* Math.max(a, b) and Math.min(a, b): NaN if either argument is NaN
MathMax2(a0, b0) ==
    LET a == ToNumber(a0)
        b == ToNumber(b0)
    IN  IF a.k = "nan" \/ b.k = "nan" THEN NaN
        ELSE IF JsLt(a, b) THEN b ELSE a

MathMin2(a0, b0) ==
    LET a == ToNumber(a0)
        b == ToNumber(b0)
    IN  IF a.k = "nan" \/ b.k = "nan" THEN NaN
        ELSE IF JsLt(b, a) THEN b ELSE a

\* Math.min(...list); Math.min() of no arguments is +Infinity
RECURSIVE MathMin(_)
MathMin(list) ==
    IF list = << >> THEN PosInf
    ELSE MathMin2(Head(list), MathMin(Tail(list)))

(***************************************************************************)
(* Results of a call: a returned value, or a thrown exception.             *)
(***************************************************************************)
Return(v) == [t |-> "ret", v |-> v]
Throw == [t |-> "throw", v |-> "Error"]

(***************************************************************************)
(* geospatial.js: flight metrics                                           *)
(*                                                                         *)
(* A waypoint passed to these functions is a record [lng, lat] of          *)
(* JavaScript values.  Every finite position of the model lies on one      *)
(* meridian, where the great-circle distance of two points is proportional *)
(* to the difference of their latitudes; latitudes are counted in grid     *)
(* steps and distances in the arc length of one grid step.                 *)
(***************************************************************************)

\* turf's isNumber(x): !isNaN(x) && x !== null && !Array.isArray(x)
TurfIsNumber(x) == x.k \in {"num", "inf", "ninf"}

\* turf.distance(from, to) for two points whose coordinates passed isNumber
TurfDistance(wp1, wp2) ==
    IF \A c \in {wp1.lng, wp1.lat, wp2.lng, wp2.lat} : c.k = "num"
    THEN Num(Abs(wp1.lat.n - wp2.lat.n))
    ELSE NaN    \* sin / cos of an infinite angle

\* turf.point throws "coordinates must contain numbers"
calculateDistance(wp1, wp2) ==
    IF \A c \in {wp1.lng, wp1.lat, wp2.lng, wp2.lat} : TurfIsNumber(c)
    THEN Return(TurfDistance(wp1, wp2))
    ELSE Throw

\* the distances of the legs i -> i+1, in order
LegResults(list) ==
    [i \in 1..(Len(list) - 1) |-> calculateDistance(list[i], list[i + 1])]

LegValues(legs) == [i \in 1..Len(legs) |-> legs[i].v]

ZeroSpeed == [maxSpeed |-> Num(0), minDistance |-> Num(0)]

\* calculateMaxSpeed multiplying by the photo interval instead of dividing
calculateMaxSpeed_times(wps, photoInterval) ==
    IF wps.absent \/ Len(wps.list) < 2 \/ IsFalsy(photoInterval)
       \/ JsLe(photoInterval, Num(0))
    THEN Return(ZeroSpeed)
    ELSE LET legs == LegResults(wps.list)
         IN  IF \E i \in 1..Len(legs) : legs[i].t = "throw"
             THEN Throw
             ELSE LET minDistance == MathMin(LegValues(legs))
                      maxSpeed == JsMul(minDistance, photoInterval)
                  IN  Return([maxSpeed |-> MathMax2(Num(0), maxSpeed),
                              minDistance |-> minDistance])

\* calculateMaxSpeed taking the first leg for the shortest one
calculateMaxSpeed_firstLeg(wps, photoInterval) ==
    IF wps.absent \/ Len(wps.list) < 2 \/ IsFalsy(photoInterval)
       \/ JsLe(photoInterval, Num(0))
    THEN Return(ZeroSpeed)
    ELSE LET legs == LegResults(wps.list)
         IN  IF \E i \in 1..Len(legs) : legs[i].t = "throw"
             THEN Throw
             ELSE LET minDistance == legs[1].v
                      maxSpeed == JsDiv(minDistance, photoInterval)
                  IN  Return([maxSpeed |-> MathMax2(Num(0), maxSpeed),
                              minDistance |-> minDistance])

\* waypoints: [absent, list]; photoInterval: a JavaScript value
calculateMaxSpeed(wps, photoInterval) ==
    IF wps.absent \/ Len(wps.list) < 2 \/ IsFalsy(photoInterval)
       \/ JsLe(photoInterval, Num(0))
    THEN Return(ZeroSpeed)
    ELSE LET legs == LegResults(wps.list)
         IN  IF \E i \in 1..Len(legs) : legs[i].t = "throw"
             THEN Throw
             ELSE LET minDistance == MathMin(LegValues(legs))
                      maxSpeed == JsDiv(minDistance, photoInterval)
                  IN  Return([maxSpeed |-> MathMax2(Num(0), maxSpeed),
                              minDistance |-> minDistance])

\* calculateMaxSpeed reading its third argument as a factor of the cadence
calculateMaxSpeedCall_usesAltitude(args) ==
    calculateMaxSpeed(args[1],
                      IF Len(args) >= 3 /\ args[3].k = "num"
                      THEN JsMul(args[2], args[3]) ELSE args[2])

\* a call calculateMaxSpeed(...args): the function declares (waypoints,
\* photoInterval), so the first two arguments are bound and the others dropped
calculateMaxSpeedCall(args) == calculateMaxSpeed(args[1], args[2])

RECURSIVE SumValues(_)
SumValues(list) ==
    IF list = << >> THEN Num(0)
    ELSE JsAdd(SumValues(SubSeq(list, 1, Len(list) - 1)), list[Len(list)])

\* calculateMissionDistance leaving out the last leg
calculateMissionDistance_skipLast(wps) ==
    IF wps.absent THEN Throw
    ELSE IF Len(wps.list) < 2 THEN Return(Num(0))
    ELSE LET legs == LegResults(SubSeq(wps.list, 1, Len(wps.list) - 1))
         IN  IF \E i \in 1..Len(legs) : legs[i].t = "throw"
             THEN Throw
             ELSE Return(SumValues(LegValues(legs)))

\* MissionMetrics.jsx
calculateMissionDistance(wps) ==
    IF wps.absent THEN Throw    \* undefined.length
    ELSE IF Len(wps.list) < 2 THEN Return(Num(0))
    ELSE LET legs == LegResults(wps.list)
         IN  IF \E i \in 1..Len(legs) : legs[i].t = "throw"
             THEN Throw
             ELSE Return(SumValues(LegValues(legs)))

\* calculateMissionTime with Math.floor for Math.round
calculateMissionTime_floor(totalDistance, speed) ==
    IF IsFalsy(speed) \/ JsLe(speed, Num(0))
    THEN Return(Num(TAKEOFF_LANDING_OVERHEAD))
    ELSE LET transitTime == JsDiv(totalDistance, speed)
             missionTime == JsAdd(transitTime, Num(TAKEOFF_LANDING_OVERHEAD))
         IN  Return(IF missionTime.k # "num" THEN missionTime
                    ELSE Num(missionTime.n \div missionTime.d))

\* calculateMissionTime without the speed <= 0 half of its guard
calculateMissionTime_noSign(totalDistance, speed) ==
    IF IsFalsy(speed)
    THEN Return(Num(TAKEOFF_LANDING_OVERHEAD))
    ELSE LET transitTime == JsDiv(totalDistance, speed)
             missionTime == JsAdd(transitTime, Num(TAKEOFF_LANDING_OVERHEAD))
         IN  Return(MathRound(missionTime))

calculateMissionTime(totalDistance, speed) ==
    IF IsFalsy(speed) \/ JsLe(speed, Num(0))
    THEN Return(Num(TAKEOFF_LANDING_OVERHEAD))
    ELSE LET transitTime == JsDiv(totalDistance, speed)
             missionTime == JsAdd(transitTime, Num(TAKEOFF_LANDING_OVERHEAD))
         IN  Return(MathRound(missionTime))

\* getFlightWarningLevel without the maxFlightTimeMinutes <= 0 half of its guard
getFlightWarningLevel_noSign(missionTimeSeconds, maxFlightTimeMinutes) ==
    IF IsFalsy(maxFlightTimeMinutes)
    THEN Return("safe")
    ELSE LET maxFlightTimeSeconds == JsMul(maxFlightTimeMinutes, Num(60))
             warningThreshold ==
                 JsMul(maxFlightTimeSeconds, Rat(FLIGHT_WARNING_THRESHOLD_PCT, 100))
         IN  IF JsGe(missionTimeSeconds, maxFlightTimeSeconds)
             THEN Return("critical")
             ELSE IF JsGe(missionTimeSeconds, warningThreshold)
             THEN Return("warning")
             ELSE Return("safe")

\* getFlightWarningLevel with > for >= at the flight-time limit
getFlightWarningLevel_strict(missionTimeSeconds, maxFlightTimeMinutes) ==
    IF IsFalsy(maxFlightTimeMinutes) \/ JsLe(maxFlightTimeMinutes, Num(0))
    THEN Return("safe")
    ELSE LET maxFlightTimeSeconds == JsMul(maxFlightTimeMinutes, Num(60))
             warningThreshold ==
                 JsMul(maxFlightTimeSeconds, Rat(FLIGHT_WARNING_THRESHOLD_PCT, 100))
         IN  IF JsGt(missionTimeSeconds, maxFlightTimeSeconds)
             THEN Return("critical")
             ELSE IF JsGe(missionTimeSeconds, warningThreshold)
             THEN Return("warning")
             ELSE Return("safe")

getFlightWarningLevel(missionTimeSeconds, maxFlightTimeMinutes) ==
    IF IsFalsy(maxFlightTimeMinutes) \/ JsLe(maxFlightTimeMinutes, Num(0))
    THEN Return("safe")
    ELSE LET maxFlightTimeSeconds == JsMul(maxFlightTimeMinutes, Num(60))
             warningThreshold ==
                 JsMul(maxFlightTimeSeconds, Rat(FLIGHT_WARNING_THRESHOLD_PCT, 100))
         IN  IF JsGe(missionTimeSeconds, maxFlightTimeSeconds)
             THEN Return("critical")
             ELSE IF JsGe(missionTimeSeconds, warningThreshold)
             THEN Return("warning")
             ELSE Return("safe")

(***************************************************************************)
(* SpecMetrics: one call of a flight-metrics function per step, on         *)
(* arguments drawn from bounded sets of well-formed and malformed values.  *)
(***************************************************************************)
BadNumbers == {Undefined, NaN, PosInf}

ValidWaypoints == {[lng |-> Num(0), lat |-> Num(y)] : y \in 0..MaxCoord}

MalformedWaypoints ==
    { [lng |-> Undefined, lat |-> Num(0)],      \* longitude missing
      [lng |-> Num(0), lat |-> NaN],            \* latitude not a number
      [lng |-> Num(0), lat |-> PosInf] }        \* latitude infinite

RECURSIVE SeqsUpTo(_, _)
SeqsUpTo(S, n) ==
    IF n = 0 THEN {<< >>}
    ELSE LET shorter == SeqsUpTo(S, n - 1)
         IN  shorter \cup {Append(q, x) : q \in {r \in shorter : Len(r) = n - 1}, x \in S}

Present(list) == [absent |-> FALSE, list |-> list]
Absent == [absent |-> TRUE, list |-> << >>]

WaypointArgs ==
    {Absent} \cup {Present(q) : q \in SeqsUpTo(ValidWaypoints \cup MalformedWaypoints, MaxWps)}

Cadences == {Num(c) : c \in (-1)..MaxCadence} \cup {Rat(1, 2)} \cup BadNumbers
Speeds == {Num(c) : c \in (-1)..MaxCadence} \cup {Rat(1, 2)} \cup BadNumbers
TotalDistances == {Num(x) : x \in 0..MaxDist} \cup BadNumbers
MissionTimes == {Num(x) : x \in 0..MaxTime} \cup {Undefined, NaN}
FlightTimes == {Num(m) : m \in (-1)..MaxMinutes} \cup {Rat(1, 2)} \cup {Undefined, NaN}

NoCall == [fn |-> "none", wps |-> Absent, a |-> Undefined, b |-> Undefined]

CallMaxSpeed ==
    /\ call = NoCall
    /\ \E wps \in WaypointArgs, photoInterval \in Cadences :
        /\ call' = [fn |-> "calculateMaxSpeed", wps |-> wps,
                    a |-> photoInterval, b |-> Undefined]
        /\ ret' = calculateMaxSpeed(wps, photoInterval)

\* the arguments a caller passes after (waypoints, photoInterval): none, or
\* (altitude, fov, gimbalPitch, frontOverlap) as handleGenerate does
ExtraArgs ==
    {<< >>} \cup {<<alt, fov, Num(-90), overlap>> :
                      alt \in {Num(60), Num(120)},
                      fov \in {Rat(DEFAULT_HFOV_TENTHS, 10), NaN},
                      overlap \in {Num(80), Undefined}}

CallMaxSpeedWithExtras ==
    /\ call = NoCall
    /\ \E wps \in WaypointArgs, photoInterval \in Cadences, extra \in ExtraArgs :
        /\ call' = [fn |-> "calculateMaxSpeed(...)", wps |-> wps,
                    a |-> photoInterval, b |-> Undefined, extra |-> extra]
        /\ ret' = calculateMaxSpeedCall(<<wps, photoInterval>> \o extra)

CallMissionDistance ==
    /\ call = NoCall
    /\ \E wps \in WaypointArgs :
        /\ call' = [fn |-> "calculateMissionDistance", wps |-> wps,
                    a |-> Undefined, b |-> Undefined]
        /\ ret' = calculateMissionDistance(wps)

CallMissionTime ==
    /\ call = NoCall
    /\ \E totalDistance \in TotalDistances, speed \in Speeds :
        /\ call' = [fn |-> "calculateMissionTime", wps |-> Absent,
                    a |-> totalDistance, b |-> speed]
        /\ ret' = calculateMissionTime(totalDistance, speed)

CallFlightWarningLevel ==
    /\ call = NoCall
    /\ \E t \in MissionTimes, m \in FlightTimes :
        /\ call' = [fn |-> "getFlightWarningLevel", wps |-> Absent,
                    a |-> t, b |-> m]
        /\ ret' = getFlightWarningLevel(t, m)

(***************************************************************************)
(* The mission store (useMissionStore) and the sidebar's state.            *)
(*                                                                         *)
(* settings is a record; a settings patch or a session block's settings    *)
(* is a record over some of its keys.  A polygon is a name, "null" when    *)
(* there is none.  An optional value is a sequence of length 0 or 1.       *)
(***************************************************************************)
\* photoInterval is counted in tenths of a second and customFOV in tenths of
\* a degree (the defaults are 2 s and 82.1 degrees)
DefaultSettings ==
    [altitude |-> 60, speed |-> 10, gimbalPitch |-> -90, photoInterval |-> 20,
     missionEndAction |-> "goHome", selectedDrone |-> "dji_mini_5_pro",
     customFOV |-> 821]

\* settings.frontOverlap: the store's default; of the code modelled here only
\* the call of calculateMaxSpeed in handleGenerate reads it
frontOverlap == Num(80)

GimbalPitches == {-90, -45}
MissionEndActions == {"goHome", "hover"}
Polygons == {"polyA"}

None == << >>
Some(x) == <<x>>

\* useMissionStore.updateSettings(patch): shallow merge into settings
updateSettings(s, patch) ==
    [key \in DOMAIN s \cup DOMAIN patch |->
        IF key \in DOMAIN patch THEN patch[key] ELSE s[key]]

\* useMissionStore.calculateMissionMetrics(): max safe speed of the stored path
calculateMissionMetrics(wps, s) ==
    LET list == [i \in 1..Len(wps) |-> [lng |-> Num(wps[i].lng), lat |-> Num(wps[i].lat)]]
        r == calculateMaxSpeed(Present(list), Rat(s.photoInterval, 10))
    IN  IF r.t = "ret" THEN r.v.maxSpeed ELSE Num(0)

(***************************************************************************)
(* Mission files.  A file is                                               *)
(*   name      the file's name, with its extension                         *)
(*   corrupt   the package cannot be decoded                               *)
(*   features  the records of the flight plan: each has a geometry type    *)
(*             ("Point", "LineString", or "null" for a record without      *)
(*             geometry), coordinates <<lng, lat>> and a properties record *)
(*             over some of the per-point fields                           *)
(*   session   the optional session block [settings, polygon], settings    *)
(*             itself optional                                             *)
(*   exportedSettings  history: the settings the store held when           *)
(*             handleDownloadConfirm produced the file (None for a file    *)
(*             of another tool)                                            *)
(***************************************************************************)
Feature(type, lng, lat, props) ==
    [type |-> type, coordinates |-> <<lng, lat>>, properties |-> props]

NoProps == [x \in {} |-> 0]

FileAlpha ==
    [name |-> "alpha.kmz", corrupt |-> FALSE,
     features |-> << Feature("Point", 0, 1,
                        [altitude |-> 40, speed |-> 4, gimbalPitch |-> -30,
                         heading |-> 90, cameraAction |-> "photo"]),
                     Feature("LineString", 0, 0, NoProps),
                     Feature("Point", 0, 3, [altitude |-> 70]) >>,
     session |-> None, exportedSettings |-> None]

FileBeta ==
    [name |-> "beta.KML", corrupt |-> TRUE,
     features |-> << >>, session |-> None, exportedSettings |-> None]

FileGamma ==
    [name |-> "gamma.kml", corrupt |-> FALSE,
     features |-> << Feature("LineString", 0, 0, NoProps) >>,
     session |-> Some([settings |-> Some([altitude |-> 80]),
                       polygon |-> "polyB"]),
     exportedSettings |-> None]

FileDelta ==
    [name |-> "delta.txt", corrupt |-> FALSE,
     features |-> << Feature("Point", 0, 2, NoProps) >>,
     session |-> Some([settings |-> Some([altitude |-> 80, speed |-> 10,
                                          gimbalPitch |-> -45, photoInterval |-> 20,
                                          missionEndAction |-> "hover"]),
                       polygon |-> "polyB"]),
     exportedSettings |-> None]

FileEpsilon ==
    [name |-> "epsilon.kmz", corrupt |-> FALSE,
     features |-> << Feature("Point", 0, 1, NoProps),
                     Feature("null", 0, 0, NoProps) >>,
     session |-> None, exportedSettings |-> None]

FileZeta ==
    [name |-> "zeta.KMZ", corrupt |-> FALSE,
     features |-> << Feature("Point", 0, 0, [heading |-> 180]) >>,
     session |-> Some([settings |-> None, polygon |-> "null"]),
     exportedSettings |-> None]

\* a session saved with a custom field of view of 60 degrees next to a
\* registered drone, whose preset has its own
FileEta ==
    [name |-> "eta.kmz", corrupt |-> FALSE,
     features |-> << Feature("Point", 0, 1, NoProps) >>,
     session |-> Some([settings |-> Some([selectedDrone |-> "dji_mini_5_pro",
                                          customFOV |-> 600, speed |-> 4]),
                       polygon |-> "polyA"]),
     exportedSettings |-> None]

\* a session saved with the custom drone
FileTheta ==
    [name |-> "theta.kml", corrupt |-> FALSE,
     features |-> << Feature("Point", 0, 2, NoProps) >>,
     session |-> Some([settings |-> Some([selectedDrone |-> "custom"]),
                       polygon |-> "null"]),
     exportedSettings |-> None]

\* the files of other tools offered for import under Spec
PeerFiles == {FileAlpha, FileBeta, FileGamma, FileDelta, FileEpsilon}

NoFile ==
    [name |-> "", corrupt |-> FALSE, features |-> << >>, session |-> None,
     exportedSettings |-> None]

\* file.name.replace(/\.(kmz|kml)$/i, '')
BaseNames ==
    {"alpha", "beta", "gamma", "delta.txt", "epsilon", "zeta", "eta", "theta", "survey",
     "waygen_ts"}
MissionExtensions == {".kmz", ".kml", ".KMZ", ".KML"}

StripExtension(name) ==
    IF \E b \in BaseNames, e \in MissionExtensions : name = b \o e
    THEN CHOOSE b \in BaseNames : \E e \in MissionExtensions : name = b \o e
    ELSE name

\* kmlImporter.parseImport(file): rejects, or resolves to {geojson, sessionData}
parseImport(file) ==
    IF file.corrupt THEN [t |-> "reject", geojson |-> << >>, sessionData |-> None]
    ELSE [t |-> "resolve", geojson |-> file.features, sessionData |-> file.session]

\* djiExporter.downloadKMZ(waypoints, exportSettings, filename, sessionData):
\* one point record per waypoint, in order, and the session block
WaypointFeature(wp) ==
    Feature("Point", wp.lng, wp.lat,
            [altitude |-> wp.altitude, speed |-> wp.speed,
             gimbalPitch |-> wp.gimbalPitch, heading |-> wp.heading])

downloadKMZ(wps, exportSettings, filename, sessionData, storeSettings) ==
    [name |-> filename \o ".kmz", corrupt |-> FALSE,
     features |-> [i \in 1..Len(wps) |-> WaypointFeature(wps[i])],
     session |-> Some(sessionData),
     exportedSettings |-> Some(storeSettings)]

(***************************************************************************)
(* SidebarMain: handlers.  A handler runs to completion as one step; the   *)
(* component has re-rendered before the next handler starts, so the        *)
(* `settings`, `waypoints` and `currentPolygon` a handler's closure sees   *)
(* are the values at the start of its step.  processFile's closure lives   *)
(* across the await: the step that resumes it sees the values of the step  *)
(* that called it.                                                         *)
(***************************************************************************)
\* escaped: the handler let an exception escape to its caller
Ran(op, file) == [op |-> op, file |-> file, escaped |-> FALSE]

\* onChange of the Gimbal Pitch slider
ChangeGimbalPitch ==
    \E v \in GimbalPitches :
        /\ settings' = updateSettings(settings, [gimbalPitch |-> v])
        /\ last' = Ran("other", NoFile)
        /\ UNCHANGED <<waypoints, currentMissionFilename, currentPolygon,
                       showDownloadDialog, files, pending, timers,
                       calculatedMaxSpeed, nextId>>

\* App: MapContainer's onPolygonDrawn is setCurrentPolygon
OnPolygonDrawn ==
    \E p \in Polygons \cup {"null"} :
        /\ currentPolygon' = p
        /\ last' = Ran("other", NoFile)
        /\ UNCHANGED <<settings, waypoints, currentMissionFilename,
                       showDownloadDialog, files, pending, timers,
                       calculatedMaxSpeed, nextId>>

\* the Download button is disabled while there is no waypoint
handleDownloadClick ==
    /\ Len(waypoints) # 0
    /\ ~showDownloadDialog
    /\ showDownloadDialog' = TRUE
    /\ last' = Ran("other", NoFile)
    /\ UNCHANGED <<settings, waypoints, currentMissionFilename, currentPolygon,
                   files, pending, timers, calculatedMaxSpeed, nextId>>

\* DownloadDialog onClose
CloseDownloadDialog ==
    /\ showDownloadDialog
    /\ showDownloadDialog' = FALSE
    /\ last' = Ran("other", NoFile)
    /\ UNCHANGED <<settings, waypoints, currentMissionFilename, currentPolygon,
                   files, pending, timers, calculatedMaxSpeed, nextId>>

getDefaultFilename ==
    IF currentMissionFilename # "null" /\ currentMissionFilename # ""
    THEN currentMissionFilename
    ELSE "waygen_ts"

\* the session block handleDownloadConfirm captures
SessionDataOf(closureSettings, polygon) ==
    [settings |-> Some(closureSettings), polygon |-> polygon]

handleDownloadConfirm ==
    /\ showDownloadDialog
    /\ Cardinality(files) < MaxExports
    /\ \E filename \in {getDefaultFilename, "survey"},
          missionEndAction \in MissionEndActions :
        LET stored == updateSettings(settings, [missionEndAction |-> missionEndAction])
            sessionData == SessionDataOf(settings, currentPolygon)
            exportSettings ==
                updateSettings(settings, [missionEndAction |-> missionEndAction])
            file == downloadKMZ(waypoints, exportSettings, filename, sessionData, stored)
        IN  /\ settings' = stored
            /\ files' = files \cup {file}
            /\ last' = Ran("handleDownloadConfirm", file)
    /\ UNCHANGED <<waypoints, currentMissionFilename, currentPolygon,
                   showDownloadDialog, pending, timers, calculatedMaxSpeed, nextId>>

\* handleFileUpload / handleDrop: processFile(file) up to the await.  With no
\* file chosen (NoFile) processFile returns at once.  pending is the bag of
\* the calls awaiting parseImport, each with the settings its closure holds.
ProcessFileStart(library) ==
    /\ BagCardinality(pending) < MaxPending
    /\ \E file \in library \cup files \cup {NoFile} :
        pending' = IF file = NoFile THEN pending
                   ELSE pending (+) SetToBag({[file |-> file, settings |-> settings]})
    /\ last' = Ran("other", NoFile)
    /\ UNCHANGED <<settings, waypoints, currentMissionFilename, currentPolygon,
                   showDownloadDialog, files, timers, calculatedMaxSpeed, nextId>>

Remove(bag, p) == bag (-) SetToBag({p})

HasProp(f, key) == key \in DOMAIN f.properties

\* NewPoint with longitude and latitude taken from the wrong coordinate
NewPoint_swapped(f, id, closureSettings) ==
    [id |-> id,
     lng |-> f.coordinates[2],
     lat |-> f.coordinates[1],
     altitude |-> IF HasProp(f, "altitude") THEN f.properties.altitude
                  ELSE closureSettings.altitude,
     speed |-> IF HasProp(f, "speed") THEN f.properties.speed
               ELSE closureSettings.speed,
     gimbalPitch |-> IF HasProp(f, "gimbalPitch") THEN f.properties.gimbalPitch
                     ELSE closureSettings.gimbalPitch,
     heading |-> IF HasProp(f, "heading") THEN f.properties.heading ELSE 0]

\* the waypoint processFile builds for a point record
NewPoint(f, id, closureSettings) ==
    [id |-> id,
     lng |-> f.coordinates[1],
     lat |-> f.coordinates[2],
     altitude |-> IF HasProp(f, "altitude") THEN f.properties.altitude
                  ELSE closureSettings.altitude,
     speed |-> IF HasProp(f, "speed") THEN f.properties.speed
               ELSE closureSettings.speed,
     gimbalPitch |-> IF HasProp(f, "gimbalPitch") THEN f.properties.gimbalPitch
                     ELSE closureSettings.gimbalPitch,
     heading |-> IF HasProp(f, "heading") THEN f.properties.heading ELSE 0]

IsPointFeature(f) == f.type = "Point"

\* geojson.features.forEach(...): the new points, the next unused token and
\* whether reading a record's geometry threw
RECURSIVE BuildPoints(_, _, _, _)
BuildPoints(features, newPoints, id, closureSettings) ==
    IF features = << >>
    THEN [t |-> "ret", newPoints |-> newPoints, nextId |-> id]
    ELSE LET f == Head(features)
         IN  IF f.type = "null"
             THEN [t |-> "throw", newPoints |-> newPoints, nextId |-> id]
             ELSE IF IsPointFeature(f)
             THEN BuildPoints(Tail(features),
                              Append(newPoints, NewPoint(f, id, closureSettings)),
                              id + 1, closureSettings)
             ELSE BuildPoints(Tail(features), newPoints, id, closureSettings)

\* RestoreSettings falling back to the defaults when the file has no session
RestoreSettings_reset(sessionData, s) ==
    IF sessionData # None /\ sessionData[1].settings # None
    THEN updateSettings(s, sessionData[1].settings[1])
    ELSE DefaultSettings

\* if (sessionData) { if (sessionData.settings) updateSettings(sessionData.settings) }
RestoreSettings(sessionData, s) ==
    IF sessionData # None /\ sessionData[1].settings # None
    THEN updateSettings(s, sessionData[1].settings[1])
    ELSE s

\* if (sessionData) { if (sessionData.polygon && setCurrentPolygon) setCurrentPolygon(...) }
RestorePolygon(sessionData, polygon) ==
    IF sessionData # None /\ sessionData[1].polygon # "null"
    THEN sessionData[1].polygon
    ELSE polygon

\* a catch block that also clears the mission
CatchEffects_clear(op, file) ==
    /\ last' = Ran(op, file)
    /\ waypoints' = << >>
    /\ currentMissionFilename' = "null"
    /\ UNCHANGED <<settings, currentPolygon, showDownloadDialog, files, timers,
                   calculatedMaxSpeed>>

\* the catch block of processFile: console.error and alert, nothing else
CatchEffects(op, file) ==
    /\ last' = Ran(op, file)
    /\ UNCHANGED <<settings, waypoints, currentMissionFilename, currentPolygon,
                   showDownloadDialog, files, timers, calculatedMaxSpeed>>

\* parseImport rejected
ProcessFileRejected ==
    \E p \in BagToSet(pending) :
            /\ parseImport(p.file).t = "reject"
            /\ pending' = Remove(pending, p)
            /\ CatchEffects("importRejected", p.file)
            /\ UNCHANGED nextId

\* the points test always passing
HasPoints_always(newPoints) == TRUE

\* newPoints.length > 0
HasPoints(newPoints) == Len(newPoints) > 0

\* processFile storing the filename before it looks at the points
ProcessFileResolved_namesFirst ==
    \E p \in BagToSet(pending) :
        LET parsed == parseImport(p.file)
            built == BuildPoints(parsed.geojson, << >>, nextId, p.settings)
            sessionData == parsed.sessionData
        IN  /\ parsed.t = "resolve"
            /\ built.nextId <= MaxId + 1
            /\ Len(timers) < MaxTimers
            /\ pending' = Remove(pending, p)
            /\ nextId' = built.nextId
            /\ IF built.t = "throw"
               THEN CatchEffects("importThrew", p.file)
               ELSE IF HasPoints(built.newPoints)
               THEN /\ waypoints' = built.newPoints
                    /\ settings' = RestoreSettings(sessionData, settings)
                    /\ currentPolygon' = RestorePolygon(sessionData, currentPolygon)
                    /\ currentMissionFilename' = StripExtension(p.file.name)
                    /\ timers' = Append(timers, "importMetrics")
                    /\ last' = Ran("imported", p.file)
                    /\ UNCHANGED <<showDownloadDialog, files, calculatedMaxSpeed>>
               ELSE /\ last' = Ran("importedNothing", p.file)
                    /\ currentMissionFilename' = StripExtension(p.file.name)
                    /\ UNCHANGED <<settings, waypoints,
                                   currentPolygon, showDownloadDialog, files, timers,
                                   calculatedMaxSpeed>>

\* parseImport resolved: the rest of processFile
ProcessFileResolved ==
    \E p \in BagToSet(pending) :
        LET parsed == parseImport(p.file)
            built == BuildPoints(parsed.geojson, << >>, nextId, p.settings)
            sessionData == parsed.sessionData
        IN  /\ parsed.t = "resolve"
            /\ built.nextId <= MaxId + 1
            /\ Len(timers) < MaxTimers
            /\ pending' = Remove(pending, p)
            /\ nextId' = built.nextId
            /\ IF built.t = "throw"
               THEN CatchEffects("importThrew", p.file)
               ELSE IF HasPoints(built.newPoints)
               THEN /\ waypoints' = built.newPoints
                    /\ settings' = RestoreSettings(sessionData, settings)
                    /\ currentPolygon' = RestorePolygon(sessionData, currentPolygon)
                    /\ currentMissionFilename' = StripExtension(p.file.name)
                    /\ timers' = Append(timers, "importMetrics")
                    /\ last' = Ran("imported", p.file)
                    /\ UNCHANGED <<showDownloadDialog, files, calculatedMaxSpeed>>
               ELSE /\ last' = Ran("importedNothing", p.file)
                    /\ UNCHANGED <<settings, waypoints, currentMissionFilename,
                                   currentPolygon, showDownloadDialog, files, timers,
                                   calculatedMaxSpeed>>

\* setTimeout: the delay each kind of callback is set with
TimerDelay(kind) == IF kind = "generateMetrics" THEN 50 ELSE 100

\* the callback at position i is due before every callback set earlier
CanFire(i) == \A j \in 1..(i - 1) : TimerDelay(timers[j]) > TimerDelay(timers[i])

RemoveAt(q, i) == SubSeq(q, 1, i - 1) \o SubSeq(q, i + 1, Len(q))

\* the setTimeout callback of processFile: fitMapToWaypoints() and
\* calculateMissionMetrics()
ImportTimerFires ==
    /\ \E i \in 1..Len(timers) :
        /\ CanFire(i)
        /\ timers[i] = "importMetrics"
        /\ timers' = RemoveAt(timers, i)
    /\ calculatedMaxSpeed' = calculateMissionMetrics(waypoints, settings)
    /\ last' = Ran("other", NoFile)
    /\ UNCHANGED <<settings, waypoints, currentMissionFilename, currentPolygon,
                   showDownloadDialog, files, pending, nextId>>

(***************************************************************************)
(* Drone profile registry (dronePresets.js).  A preset field that is null  *)
(* is None.  Fields of view are in tenths of a degree, photo intervals in  *)
(* tenths of a second, flight times in minutes.                            *)
(***************************************************************************)
DroneIds == {"dji_mini_5_pro", "custom"}

\* an id no preset is registered under
UnknownDrone == "legacy_drone"

DRONE_PRESETS ==
    [id \in DroneIds |->
        IF id = "custom"
        THEN [hfov |-> None, photoInterval |-> None, maxFlightTime |-> Num(0)]
        ELSE [hfov |-> Some(DEFAULT_HFOV_TENTHS), photoInterval |-> Some(20),
              maxFlightTime |-> Rat(1, 10)]]

\* getDronePreset(id): the preset, undefined (None) for an id not registered
getDronePreset(id) == IF id \in DroneIds THEN Some(DRONE_PRESETS[id]) ELSE None

(***************************************************************************)
(* pathGenerator.js.  A polygon is a name: "polyA" is a simple area,       *)
(* "polyNoGeometry" a feature without geometry, "polyDegenerate" an area   *)
(* on which the generation logic fails.  The path over "polyA" lies on one *)
(* meridian; a narrower field of view gives a denser path.                 *)
(***************************************************************************)
GridLatitudes(fov) == IF fov >= DEFAULT_HFOV_TENTHS THEN <<0, 2>> ELSE <<0, 1, 2>>

\* the generation logic inside the try block
GenerationLogic(polygonFeature, s) ==
    IF polygonFeature = "polyDegenerate" THEN Throw
    ELSE LET lats == GridLatitudes(s.customFOV)
         IN  Return([i \in 1..Len(lats) |->
                        [id |-> 0, lng |-> 0, lat |-> lats[i],
                         altitude |-> s.altitude, speed |-> s.speed,
                         gimbalPitch |-> s.gimbalPitch, heading |-> 0]])

\* generatePhotogrammetryPath letting a failure of the generation logic escape
generatePhotogrammetryPath_noCatch(polygonFeature, s) ==
    IF polygonFeature \in {"null", "polyNoGeometry"} THEN Return(<< >>)
    ELSE GenerationLogic(polygonFeature, s)

\* generatePhotogrammetryPath(polygonFeature, settings)
generatePhotogrammetryPath(polygonFeature, s) ==
    IF polygonFeature \in {"null", "polyNoGeometry"} THEN Return(<< >>)
    ELSE LET r == GenerationLogic(polygonFeature, s)
         IN  IF r.t = "throw" THEN Return(<< >>) ELSE r

(***************************************************************************)
(* useMissionGeneration: path generation.  The polygon Mapbox Draw holds   *)
(* selected when handleGenerate runs is an input of the step.              *)
(***************************************************************************)
DrawPolygons == {"polyA", "polyDegenerate"}
Altitudes == {60, 80}
CustomFOVs == {600, DEFAULT_HFOV_TENTHS}
PhotoIntervals == {20, DEFAULT_PHOTO_INTERVAL_TENTHS}

\* the field of view taken from the custom setting whatever the drone
EffectiveFOV_custom(currentSettings) == currentSettings.customFOV

\* dronePreset?.hfov ?? currentSettings.customFOV
EffectiveFOV(currentSettings) ==
    LET dronePreset == getDronePreset(currentSettings.selectedDrone)
    IN  IF dronePreset # None /\ dronePreset[1].hfov # None
        THEN dronePreset[1].hfov[1]
        ELSE currentSettings.customFOV

\* { ...currentSettings, customFOV: effectiveFOV }
GenerationSettings(currentSettings) ==
    updateSettings(currentSettings, [customFOV |-> EffectiveFOV(currentSettings)])

\* { ...generationSettings, speed: maxSpeed > 0 ? maxSpeed : currentSettings.speed }
FinalSettings(currentSettings, maxSpeed) ==
    updateSettings(GenerationSettings(currentSettings),
                   [speed |-> IF JsGt(maxSpeed, Num(0)) THEN maxSpeed
                              ELSE Num(currentSettings.speed)])

\* the positions of a stored path as the { lng, lat } the metrics functions read
AsLngLat(path) ==
    [i \in 1..Len(path) |-> [lng |-> Num(path[i].lng), lat |-> Num(path[i].lat)]]

\* currentSettings: the settings handleGenerate read; snapshot: the settings of
\* the last render, which the closures of the event handler hold; after: the
\* timers the caller of handleGenerate sets once it has returned
RanGenerate(op, currentSettings, polygon, generationSettings, finalSettings, escaped, after) ==
    [op |-> op, file |-> NoFile, escaped |-> escaped,
     currentSettings |-> currentSettings, polygon |-> polygon,
     generationSettings |-> generationSettings, finalSettings |-> finalSettings,
     snapshot |-> settings, after |-> after]

\* the settings of the render snapshot in place of the store's
getStateSettings_snapshot(stored, snapshot) == snapshot

\* useMissionStore.getState().settings: the settings the store holds now
getStateSettings(stored, snapshot) == stored

\* a timer set by a caller whose handleGenerate call generated no path
NoPath(after) == [i \in 1..Len(after) |-> after[i] \o "NoPath"]

\* handleGenerate writing the calculated speed, in whole m/s, to the store
handleGenerate_storesSpeed(stored, after) ==
    \E selected \in DrawPolygons \cup {"null"} :
        LET polygonToUse == IF selected # "null" THEN selected ELSE currentPolygon
            currentSettings == getStateSettings(stored, settings)
            generationSettings == GenerationSettings(currentSettings)
            initialPath == generatePhotogrammetryPath(polygonToUse, generationSettings)
            speedResult == calculateMaxSpeedCall(
                               <<Present(AsLngLat(initialPath.v)),
                                 Rat(currentSettings.photoInterval, 10),
                                 Num(currentSettings.altitude),
                                 Rat(generationSettings.customFOV, 10),
                                 Num(currentSettings.gimbalPitch),
                                 frontOverlap>>)
            finalSettings == FinalSettings(currentSettings, speedResult.v.maxSpeed)
            finalPath == generatePhotogrammetryPath(polygonToUse, finalSettings)
        IN  /\ Len(timers) + 1 + Len(after) <= MaxGenTimers
            /\ currentPolygon' = polygonToUse
            /\ polygonToUse # "null"
            /\ initialPath.t = "ret" /\ speedResult.t = "ret" /\ finalPath.t = "ret"
            /\ settings' = updateSettings(currentSettings,
                                [speed |-> MathRound(finalSettings.speed).n])
            /\ waypoints' = finalPath.v
            /\ timers' = (timers \o <<"generateMetrics">>) \o after
            /\ last' = RanGenerate("handleGenerate", currentSettings, polygonToUse,
                                   generationSettings, finalSettings, FALSE, after)

\* handleGenerate().  stored: the store's settings when it is called; after:
\* the timers its caller sets once it has returned
handleGenerate(stored, after) ==
    \E selected \in DrawPolygons \cup {"null"} :
        LET polygonToUse == IF selected # "null" THEN selected ELSE currentPolygon
            currentSettings == getStateSettings(stored, settings)
            generationSettings == GenerationSettings(currentSettings)
            initialPath == generatePhotogrammetryPath(polygonToUse, generationSettings)
            speedResult == calculateMaxSpeedCall(
                               <<Present(AsLngLat(initialPath.v)),
                                 Rat(currentSettings.photoInterval, 10),
                                 Num(currentSettings.altitude),
                                 Rat(generationSettings.customFOV, 10),
                                 Num(currentSettings.gimbalPitch),
                                 frontOverlap>>)
            finalSettings == FinalSettings(currentSettings, speedResult.v.maxSpeed)
            finalPath == generatePhotogrammetryPath(polygonToUse, finalSettings)
        IN  /\ Len(timers) + 1 + Len(after) <= MaxGenTimers
            /\ currentPolygon' = polygonToUse
            /\ settings' = stored
            /\ IF polygonToUse = "null"
               THEN /\ waypoints' = waypoints
                    /\ timers' = timers \o NoPath(after)
                    /\ last' = RanGenerate("generateNoPolygon", currentSettings, polygonToUse,
                                           currentSettings, currentSettings, FALSE, after)
               ELSE IF initialPath.t = "throw" \/ speedResult.t = "throw"
                       \/ finalPath.t = "throw"
               THEN /\ waypoints' = waypoints
                    /\ timers' = timers
                    /\ last' = RanGenerate("generateThrew", currentSettings, polygonToUse,
                                           generationSettings, generationSettings, TRUE, after)
               ELSE /\ waypoints' = finalPath.v
                    /\ timers' = (timers \o <<"generateMetrics">>) \o after
                    /\ last' = RanGenerate("handleGenerate", currentSettings, polygonToUse,
                                           generationSettings, finalSettings, FALSE, after)

\* handleAutoGenerate calling handleGenerate without its test
handleAutoGenerate_always(stored) == handleGenerate(stored, << >>)

\* handleAutoGenerate(): regenerate only if a path and a polygon exist
handleAutoGenerate(stored) ==
    IF Len(waypoints) > 0 /\ currentPolygon # "null"
    THEN handleGenerate(stored, << >>)
    ELSE /\ settings' = stored
         /\ last' = RanGenerate("autoGenerateSkipped", stored, currentPolygon,
                                stored, stored, FALSE, << >>)
         /\ UNCHANGED <<waypoints, currentPolygon, timers>>

\* the Generate Path button: handleGenerateWithWarning
handleGenerateWithWarning ==
    /\ handleGenerate(settings, <<"warningCheck">>)
    /\ UNCHANGED <<currentMissionFilename, showDownloadDialog, files,
                   pending, calculatedMaxSpeed, nextId, showFlightWarning,
                   pendingWarningCheck>>

\* onChange of the Altitude input (units are metric: toMetric leaves the value)
ChangeAltitude ==
    \E v \in Altitudes :
        LET stored == updateSettings(settings, [altitude |-> v])
        IN  /\ handleAutoGenerate(stored)
            /\ UNCHANGED <<currentMissionFilename, showDownloadDialog, files,
                           pending, calculatedMaxSpeed, nextId, showFlightWarning,
                           pendingWarningCheck>>

\* the patch the Drone Model select stores for the value val
DronePatch(val, closureSettings) ==
    LET known == val \in DroneIds
        fov == IF val = "custom" THEN closureSettings.customFOV
               ELSE IF known /\ DRONE_PRESETS[val].hfov # None
               THEN DRONE_PRESETS[val].hfov[1]
               ELSE DEFAULT_HFOV_TENTHS
        newPhotoInterval ==
               IF val = "custom" THEN closureSettings.photoInterval
               ELSE IF known /\ DRONE_PRESETS[val].photoInterval # None
               THEN DRONE_PRESETS[val].photoInterval[1]
               ELSE DEFAULT_PHOTO_INTERVAL_TENTHS
    IN  [selectedDrone |-> val, customFOV |-> fov, photoInterval |-> newPhotoInterval]

\* onChange of the Drone Model select
SelectDrone ==
    \E val \in DroneIds \cup {UnknownDrone} :
        LET stored == updateSettings(settings, DronePatch(val, settings))
        IN  /\ handleAutoGenerate(stored)
            /\ UNCHANGED <<currentMissionFilename, showDownloadDialog, files,
                           pending, calculatedMaxSpeed, nextId, showFlightWarning,
                           pendingWarningCheck>>

\* onChange of the Custom HFOV input, shown for the custom profile only
ChangeCustomFOV ==
    /\ settings.selectedDrone = "custom"
    /\ \E v \in CustomFOVs : settings' = updateSettings(settings, [customFOV |-> v])
    /\ last' = Ran("other", NoFile)
    /\ UNCHANGED <<waypoints, currentMissionFilename, currentPolygon,
                   showDownloadDialog, files, pending, timers, calculatedMaxSpeed,
                   nextId, showFlightWarning, pendingWarningCheck>>

\* onChange of the Photo Interval input
ChangePhotoInterval ==
    /\ \E v \in PhotoIntervals : settings' = updateSettings(settings, [photoInterval |-> v])
    /\ last' = Ran("other", NoFile)
    /\ UNCHANGED <<waypoints, currentMissionFilename, currentPolygon,
                   showDownloadDialog, files, pending, timers, calculatedMaxSpeed,
                   nextId, showFlightWarning, pendingWarningCheck>>

\* the setTimeout callback of handleGenerate: calculateMissionMetrics()
GenerateTimerFires ==
    /\ \E i \in 1..Len(timers) :
        /\ CanFire(i)
        /\ timers[i] = "generateMetrics"
        /\ timers' = RemoveAt(timers, i)
    /\ calculatedMaxSpeed' = calculateMissionMetrics(waypoints, settings)
    /\ last' = Ran("other", NoFile)
    /\ UNCHANGED <<settings, waypoints, currentMissionFilename, currentPolygon,
                   showDownloadDialog, files, pending, nextId, showFlightWarning,
                   pendingWarningCheck>>

\* the warning checks: set after a generated path, set after a request that
\* generated none
WarningCheckKinds == {"warningCheck", "warningCheckNoPath"}

\* the setTimeout callback of handleGenerateWithWarning; raised: the check was
\* not pending before
WarningTimerFires ==
    /\ \E i \in 1..Len(timers) :
        /\ CanFire(i)
        /\ timers[i] \in WarningCheckKinds
        /\ timers' = RemoveAt(timers, i)
        /\ last' = [op |-> timers[i], file |-> NoFile, escaped |-> FALSE,
                    raised |-> ~pendingWarningCheck]
    /\ pendingWarningCheck' = TRUE
    /\ UNCHANGED <<settings, waypoints, currentMissionFilename, currentPolygon,
                   showDownloadDialog, files, pending, calculatedMaxSpeed, nextId,
                   showFlightWarning>>

\* useMissionStore.getFlightWarningLevel(): the mission time of the stored path
\* at the calculated speed against the selected drone's flight time
StoreWarningLevel ==
    LET preset == getDronePreset(settings.selectedDrone)
        maxFlightTime == IF preset = None THEN Undefined ELSE preset[1].maxFlightTime
        \* sets of one element, so that each intermediate result is computed once
        totalDistance == {calculateMissionDistance(wps).v : wps \in {Present(AsLngLat(waypoints))}}
        missionTime == {calculateMissionTime(d, calculatedMaxSpeed).v : d \in totalDistance}
        level == {getFlightWarningLevel(t, m).v : t \in missionTime, m \in {maxFlightTime}}
    IN  CHOOSE l \in level : TRUE

getWarningLevel ==
    IF Len(waypoints) >= 2 /\ JsGt(calculatedMaxSpeed, Num(0))
    THEN StoreWarningLevel
    ELSE "safe"

\* the effect leaving the check pending while the level is 'safe'
WarningEffect_keepsSafeCheck ==
    /\ pendingWarningCheck
    /\ pendingWarningCheck' = (getWarningLevel = "safe")
    /\ showFlightWarning' = IF getWarningLevel # "safe" THEN TRUE ELSE showFlightWarning
    /\ last' = Ran("warningEffect", NoFile)
    /\ UNCHANGED <<settings, waypoints, currentMissionFilename, currentPolygon,
                   showDownloadDialog, files, pending, timers, calculatedMaxSpeed,
                   nextId>>

\* the effect on [pendingWarningCheck, warningLevel]
WarningEffect ==
    /\ pendingWarningCheck
    /\ pendingWarningCheck' = FALSE
    /\ showFlightWarning' = IF getWarningLevel # "safe" THEN TRUE ELSE showFlightWarning
    /\ last' = Ran("warningEffect", NoFile)
    /\ UNCHANGED <<settings, waypoints, currentMissionFilename, currentPolygon,
                   showDownloadDialog, files, pending, timers, calculatedMaxSpeed,
                   nextId>>

\* FlightWarningDialog onClose
CloseFlightWarning ==
    /\ showFlightWarning
    /\ showFlightWarning' = FALSE
    /\ last' = Ran("other", NoFile)
    /\ UNCHANGED <<settings, waypoints, currentMissionFilename, currentPolygon,
                   showDownloadDialog, files, pending, timers, calculatedMaxSpeed,
                   nextId, pendingWarningCheck>>

(***************************************************************************)
(* geospatial.js: camera footprint.                                        *)
(*                                                                         *)
(* center is a record [absent, lng, lat]; absent stands for a missing      *)
(* (undefined or null) argument.  The trigonometry of the projection is    *)
(* not computed: of a corner's ground distance and bearing the model keeps *)
(* whether the value is a finite number ("num"), infinite ("inf") or NaN   *)
(* ("nan"), and a projected position is named by its corner and origin.    *)
(***************************************************************************)
NoCenter == [absent |-> TRUE, lng |-> Undefined, lat |-> Undefined]
Center(lng, lat) == [absent |-> FALSE, lng |-> lng, lat |-> lat]

\* cornersCam with its last two corners exchanged
CornersCam_swapped == <<"TR", "BR", "TL", "BL">>

\* cornersCam
CornersCam == <<"TR", "BR", "BL", "TL">>

\* turf.point(coordinates): throws "coordinates must contain numbers"
TurfPoint(lng, lat) ==
    IF TurfIsNumber(lng) /\ TurfIsNumber(lat)
    THEN Return([lng |-> lng, lat |-> lat])
    ELSE Throw

\* dist of a corner's ray: tan, sin and cos of a NaN or infinite angle are NaN,
\* an infinite altitude gives an infinite t and MAX_RENDER_DIST
RayDist(altitude, hfov, pitch) ==
    IF hfov.k # "num" \/ pitch.k # "num" THEN "nan"
    ELSE IF altitude.k # "num" THEN "inf"
    ELSE "num"

\* angle of a corner's ray: Math.atan2(dx, dy) * (180 / Math.PI)
RayAngle(altitude, hfov, pitch) ==
    IF hfov.k # "num" \/ pitch.k # "num" THEN "nan" ELSE "num"

\* finalBearing = heading + angle
FinalBearing(heading, angle) ==
    IF heading.k \in {"undef", "nan"} \/ angle = "nan" THEN "nan"
    ELSE IF heading.k \in {"inf", "ninf"} THEN "inf"
    ELSE "num"

\* turf.destination(origin, distance, bearing): sin and cos of an infinite
\* angle are NaN, and the point() it ends with throws on a NaN coordinate
TurfDestination(origin, dist, bearing, corner) ==
    IF origin.lng.k = "num" /\ origin.lat.k = "num" /\ dist = "num" /\ bearing = "num"
    THEN Return([corner |-> corner, from |-> origin])
    ELSE Throw

\* turf.polygon(coordinates, properties), for one ring: throws on a ring of
\* fewer than 4 positions and on a ring whose first and last position differ
TurfPolygon(ring, properties) ==
    IF Len(ring) < 4 THEN Throw
    ELSE IF ring[Len(ring)] # ring[1] THEN Throw
    ELSE Return(Some([type |-> "Polygon", ring |-> ring, properties |-> properties]))

\* calculateFootprint without the test of hfov in its guard
calculateFootprint_noHfovGuard(center, altitude, heading, hfov, gimbalPitchArg) ==
    LET gimbalPitch == IF gimbalPitchArg.k = "undef" THEN Num(-90) ELSE gimbalPitchArg
    IN  IF center.absent \/ IsFalsy(altitude) THEN Return(None)
        ELSE LET centerPt == TurfPoint(center.lng, center.lat)
                 dest(i) == TurfDestination(centerPt.v,
                                RayDist(altitude, hfov, gimbalPitch),
                                FinalBearing(heading, RayAngle(altitude, hfov, gimbalPitch)),
                                CornersCam[i])
             IN  IF centerPt.t = "throw" THEN Throw
                 ELSE IF \E i \in 1..Len(CornersCam) : dest(i).t = "throw" THEN Throw
                 ELSE LET coords == [i \in 1..Len(CornersCam) |-> dest(i).v]
                      IN  TurfPolygon(Append(coords, coords[1]),
                                      [altitude |-> altitude, heading |-> heading,
                                       hfov |-> hfov, pitch |-> gimbalPitch])

\* calculateFootprint(center, altitude, heading, hfov, gimbalPitch = -90):
\* null is Return(None), a polygon feature f is Return(Some(f))
calculateFootprint(center, altitude, heading, hfov, gimbalPitchArg) ==
    LET gimbalPitch == IF gimbalPitchArg.k = "undef" THEN Num(-90) ELSE gimbalPitchArg
    IN  IF center.absent \/ IsFalsy(altitude) \/ IsFalsy(hfov) THEN Return(None)
        ELSE LET centerPt == TurfPoint(center.lng, center.lat)
                 dest(i) == TurfDestination(centerPt.v,
                                RayDist(altitude, hfov, gimbalPitch),
                                FinalBearing(heading, RayAngle(altitude, hfov, gimbalPitch)),
                                CornersCam[i])
             IN  IF centerPt.t = "throw" THEN Throw
                 ELSE IF \E i \in 1..Len(CornersCam) : dest(i).t = "throw" THEN Throw
                 ELSE LET coords == [i \in 1..Len(CornersCam) |-> dest(i).v]
                      IN  TurfPolygon(Append(coords, coords[1]),
                                      [altitude |-> altitude, heading |-> heading,
                                       hfov |-> hfov, pitch |-> gimbalPitch])

(***************************************************************************)
(* Calls of calculateFootprint and generatePhotogrammetryPath on inputs    *)
(* drawn from bounded sets.                                                *)
(***************************************************************************)
FootprintCenters ==
    {NoCenter} \cup
    {Center(lng, lat) : lng \in {Num(0), Undefined},
                        lat \in {Num(y) : y \in 0..MaxCoord} \cup {NaN, PosInf}}
FootprintAltitudes == {Undefined, NaN, PosInf, Num(0), Num(60)}
FootprintHeadings == {Undefined, NaN, Num(0), Num(90)}
FootprintHfovs == {Undefined, PosInf, Num(0), Rat(DEFAULT_HFOV_TENTHS, 10)}
FootprintPitches == {Undefined, NaN, Num(-90), Num(0)}

CallFootprint ==
    /\ call.fn = "none"
    /\ \E center \in FootprintCenters, altitude \in FootprintAltitudes,
          heading \in FootprintHeadings, hfov \in FootprintHfovs,
          gimbalPitch \in FootprintPitches :
        /\ call' = [fn |-> "calculateFootprint", center |-> center,
                    altitude |-> altitude, heading |-> heading, hfov |-> hfov,
                    gimbalPitch |-> gimbalPitch]
        /\ ret' = calculateFootprint(center, altitude, heading, hfov, gimbalPitch)

\* the polygon features passed to the path generator: none ("null"), one
\* without geometry, one on which the generation logic fails, a simple area
PolygonFeatures == {"null", "polyNoGeometry", "polyDegenerate", "polyA"}

CallGeneratePath ==
    /\ call.fn = "none"
    /\ \E polygonFeature \in PolygonFeatures, altitude \in Altitudes,
          customFOV \in CustomFOVs :
        LET s == updateSettings(DefaultSettings,
                                [altitude |-> altitude, customFOV |-> customFOV])
        IN  /\ call' = [fn |-> "generatePhotogrammetryPath",
                        polygonFeature |-> polygonFeature, settings |-> s]
            /\ ret' = generatePhotogrammetryPath(polygonFeature, s)

(***************************************************************************)
(* Specifications                                                          *)
(***************************************************************************)
InitApp ==
    /\ settings = DefaultSettings
    /\ waypoints = << >>
    /\ currentMissionFilename = "null"
    /\ currentPolygon = "null"
    /\ showDownloadDialog = FALSE
    /\ files = {}
    /\ pending = EmptyBag
    /\ timers = << >>
    /\ calculatedMaxSpeed = Num(0)
    /\ nextId = 1
    /\ last = Ran("init", NoFile)
    /\ showFlightWarning = FALSE
    /\ pendingWarningCheck = FALSE

InitMetrics ==
    /\ call = NoCall
    /\ ret = Return(Undefined)

Init == InitApp /\ InitMetrics

Next ==
    \/ (ChangeGimbalPitch /\ UNCHANGED <<metricVars, warningVars>>)
    \/ (OnPolygonDrawn /\ UNCHANGED <<metricVars, warningVars>>)
    \/ (ProcessFileStart(PeerFiles) /\ UNCHANGED <<metricVars, warningVars>>)
    \/ (ProcessFileRejected /\ UNCHANGED <<metricVars, warningVars>>)
    \/ (ProcessFileResolved /\ UNCHANGED <<metricVars, warningVars>>)
    \/ (ImportTimerFires /\ UNCHANGED <<metricVars, warningVars>>)

Spec == Init /\ [][Next]_vars

\* export and re-import: the user's own packages, a file whose session block
\* is empty and a file that cannot be decoded
RoundTripFiles == {FileZeta, FileBeta}

NextRoundTrip ==
    \/ (ChangeGimbalPitch /\ UNCHANGED <<metricVars, warningVars>>)
    \/ (OnPolygonDrawn /\ UNCHANGED <<metricVars, warningVars>>)
    \/ (handleDownloadClick /\ UNCHANGED <<metricVars, warningVars>>)
    \/ (CloseDownloadDialog /\ UNCHANGED <<metricVars, warningVars>>)
    \/ (handleDownloadConfirm /\ UNCHANGED <<metricVars, warningVars>>)
    \/ (ProcessFileStart(RoundTripFiles) /\ UNCHANGED <<metricVars, warningVars>>)
    \/ (ProcessFileRejected /\ UNCHANGED <<metricVars, warningVars>>)
    \/ (ProcessFileResolved /\ UNCHANGED <<metricVars, warningVars>>)
    \/ (ImportTimerFires /\ UNCHANGED <<metricVars, warningVars>>)

SpecRoundTrip == Init /\ [][NextRoundTrip]_vars

\* path generation: the settings inputs that regenerate the path, the Generate
\* Path button, the timers they set and the flight warning dialog
NextGenerate ==
    \/ (handleGenerateWithWarning /\ UNCHANGED metricVars)
    \/ (ChangeAltitude /\ UNCHANGED metricVars)
    \/ (SelectDrone /\ UNCHANGED metricVars)
    \/ (ChangeCustomFOV /\ UNCHANGED metricVars)
    \/ (ChangePhotoInterval /\ UNCHANGED metricVars)
    \/ (OnPolygonDrawn /\ UNCHANGED <<metricVars, warningVars>>)
    \/ (GenerateTimerFires /\ UNCHANGED metricVars)
    \/ (WarningTimerFires /\ UNCHANGED metricVars)
    \/ (WarningEffect /\ UNCHANGED metricVars)
    \/ (CloseFlightWarning /\ UNCHANGED metricVars)

SpecGenerate == Init /\ [][NextGenerate]_vars

\* the Generate Path button and the flight warning: requests, their timers,
\* the effect and the dialog.  React runs the effect after the render that
\* follows a change of pendingWarningCheck, hence the fairness condition.
NextWarning ==
    \/ (handleGenerateWithWarning /\ UNCHANGED metricVars)
    \/ (ChangePhotoInterval /\ UNCHANGED metricVars)
    \/ (OnPolygonDrawn /\ UNCHANGED <<metricVars, warningVars>>)
    \/ (GenerateTimerFires /\ UNCHANGED metricVars)
    \/ (WarningTimerFires /\ UNCHANGED metricVars)
    \/ (WarningEffect /\ UNCHANGED metricVars)
    \/ (CloseFlightWarning /\ UNCHANGED metricVars)

SpecWarning ==
    Init /\ [][NextWarning]_vars /\ WF_vars(WarningEffect /\ UNCHANGED metricVars)

NextMetrics ==
    \/ (CallMaxSpeed /\ UNCHANGED appVars)
    \/ (CallMaxSpeedWithExtras /\ UNCHANGED appVars)
    \/ (CallMissionDistance /\ UNCHANGED appVars)
    \/ (CallMissionTime /\ UNCHANGED appVars)
    \/ (CallFlightWarningLevel /\ UNCHANGED appVars)

SpecMetrics == Init /\ [][NextMetrics]_vars

\* path generation over restored sessions: imports that restore settings and
\* polygon, the Generate Path button and the timers both set (these missions
\* stay below the warning threshold, so the dialog is never open)
RestoreFiles == {FileEta, FileTheta, FileBeta}

NextRestore ==
    \/ (ProcessFileStart(RestoreFiles) /\ UNCHANGED <<metricVars, warningVars>>)
    \/ (ProcessFileRejected /\ UNCHANGED <<metricVars, warningVars>>)
    \/ (ProcessFileResolved /\ UNCHANGED <<metricVars, warningVars>>)
    \/ (ImportTimerFires /\ UNCHANGED <<metricVars, warningVars>>)
    \/ (handleGenerateWithWarning /\ UNCHANGED metricVars)
    \/ (GenerateTimerFires /\ UNCHANGED metricVars)
    \/ (WarningTimerFires /\ UNCHANGED metricVars)
    \/ (WarningEffect /\ UNCHANGED metricVars)

SpecRestore == Init /\ [][NextRestore]_vars

\* calls of the footprint projection and of the path generator
NextGeometry ==
    \/ (CallFootprint /\ UNCHANGED appVars)
    \/ (CallGeneratePath /\ UNCHANGED appVars)

SpecGeometry == Init /\ [][NextGeometry]_vars

(***************************************************************************)
(* Flight metrics: properties (SpecMetrics)                                *)
(***************************************************************************)
IsPositiveNum(x) == x.k = "num" /\ x.n > 0

\* C1: for every mission time t (seconds) and every positive max flight time
\* L (minutes) getFlightWarningLevel returns 'critical' iff t >= 60 L,
\* 'warning' iff 0.85 * 60 L <= t < 60 L and 'safe' iff t < 0.85 * 60 L; it
\* returns one of the three.
C1_WarningLevelTiers ==
    (call.fn = "getFlightWarningLevel" /\ IsFiniteNum(call.a) /\ IsPositiveNum(call.b)) =>
        LET t == call.a
            L == call.b
            atLimit == t.n * L.d >= 60 * L.n * t.d
            atThreshold == 100 * t.n * L.d >= 85 * 60 * L.n * t.d
        IN  /\ ret.t = "ret"
            /\ ret.v \in {"safe", "warning", "critical"}
            /\ (ret.v = "critical") <=> atLimit
            /\ (ret.v = "warning") <=> (atThreshold /\ ~atLimit)
            /\ (ret.v = "safe") <=> ~atThreshold

\* a two-minute profile and a mission of 102 s, exactly 85% of the limit
C1_Witness ==
    /\ call.fn = "getFlightWarningLevel"
    /\ call.a = Num(102)
    /\ call.b = Num(2)
    /\ ret = Return("warning")

AllFinite(list) ==
    \A i \in 1..Len(list) : IsFiniteNum(list[i].lng) /\ IsFiniteNum(list[i].lat)

LegLength(list, i) == Num(Abs(list[i + 1].lat.n - list[i].lat.n))

C3_MaxSpeedFiniteNonNegative ==
    (call.fn = "calculateMaxSpeed" /\ ret.t = "ret") =>
        /\ IsFiniteNum(ret.v.maxSpeed)
        /\ ret.v.maxSpeed.n >= 0
        /\ (\/ call.wps.absent
            \/ Len(call.wps.list) < 2
            \/ call.a.k \in {"undef", "nan"}
            \/ (call.a.k = "num" /\ call.a.n <= 0)) => ret.v = ZeroSpeed

\* C4: the flight-metrics operations return a value and never throw, for any
\* input, including an absent waypoint list and waypoints whose longitude or
\* latitude is missing or not a number.
C4_MetricsNeverThrow ==
    call.fn # "none" => ret.t = "ret"

IsMissingOrNonPositive(x) == x.k = "undef" \/ (x.k = "num" /\ x.n <= 0)

\* C11: for every total distance d >= 0 and every speed s > 0
\* calculateMissionTime returns d / s plus the takeoff / landing overhead,
\* rounded to the nearest whole second.
C11_MissionTimeIsRoundedQuotient ==
    (/\ call.fn = "calculateMissionTime"
     /\ IsFiniteNum(call.a) /\ call.a.n >= 0
     /\ IsPositiveNum(call.b)) =>
        LET d == call.a
            s == call.b
            \* exact == d / s + overhead, as the fraction num / den
            num == d.n * s.d + TAKEOFF_LANDING_OVERHEAD * d.d * s.n
            den == d.d * s.n
        IN  /\ ret.t = "ret"
            /\ ret.v.k = "num" /\ ret.v.d = 1
            /\ 2 * Abs(ret.v.n * den - num) <= den

\* 5 m at 2 m/s: 2.5 s, rounded to 3 s
C11_Witness ==
    /\ call.fn = "calculateMissionTime"
    /\ call.a = Num(5)
    /\ call.b = Num(2)
    /\ ret = Return(Num(3))

\* C12: for every speed s <= 0, or a missing speed, and every total distance
\* calculateMissionTime returns exactly the takeoff / landing overhead.
C12_NoSpeedGivesOverhead ==
    (call.fn = "calculateMissionTime" /\ IsMissingOrNonPositive(call.b)) =>
        ret = Return(Num(TAKEOFF_LANDING_OVERHEAD))

\* a negative speed over the longest distance
C12_Witness ==
    /\ call.fn = "calculateMissionTime"
    /\ call.a = Num(MaxDist)
    /\ call.b = Num(-1)
    /\ ret = Return(Num(TAKEOFF_LANDING_OVERHEAD))

\* C13: for a profile without a time limit (maxFlightTimeMinutes 0, missing
\* or negative) getFlightWarningLevel returns 'safe' for every mission time
\* t >= 0.
C13_NoLimitIsSafe ==
    (/\ call.fn = "getFlightWarningLevel"
     /\ IsFiniteNum(call.a) /\ call.a.n >= 0
     /\ IsMissingOrNonPositive(call.b)) =>
        ret = Return("safe")

\* the longest mission on a profile whose limit is negative
C13_Witness ==
    /\ call.fn = "getFlightWarningLevel"
    /\ call.a = Num(MaxTime)
    /\ call.b = Num(-1)
    /\ ret = Return("safe")

\* the numeric cadences c2 >= c
LaterCadences(c) == {c2 \in Cadences : c2.k = "num" /\ JsLe(c, c2)}

\* C14 as stated: for a fixed waypoint sequence and any two cadences
\* c1 <= c2, maxSpeed(waypoints, c2) <= maxSpeed(waypoints, c1).
C14_MaxSpeedMonotoneAnyCadence ==
    (/\ call.fn = "calculateMaxSpeed"
     /\ ~call.wps.absent
     /\ AllFinite(call.wps.list)
     /\ call.a.k = "num") =>
        \A c2 \in LaterCadences(call.a) :
            JsLe(calculateMaxSpeed(call.wps, c2).v.maxSpeed, ret.v.maxSpeed)

\* C14 amended: for a fixed waypoint sequence and any two positive cadences
\* 0 < c1 <= c2, maxSpeed(waypoints, c2) <= maxSpeed(waypoints, c1).
C14_MaxSpeedMonotonePositiveCadence ==
    (/\ call.fn = "calculateMaxSpeed"
     /\ ~call.wps.absent
     /\ AllFinite(call.wps.list)
     /\ IsPositiveNum(call.a)) =>
        \A c2 \in LaterCadences(call.a) :
            JsLe(calculateMaxSpeed(call.wps, c2).v.maxSpeed, ret.v.maxSpeed)

\* a leg of 3 flown with one photo per second, slower with one every 3 s
C14_Witness ==
    /\ call.fn = "calculateMaxSpeed"
    /\ Len(call.wps.list) = 2
    /\ AllFinite(call.wps.list)
    /\ call.a = Num(1)
    /\ ret.t = "ret"
    /\ ret.v.maxSpeed = Num(3)
    /\ calculateMaxSpeed(call.wps, Num(3)).v.maxSpeed = Num(1)

RECURSIVE PathLength(_)
PathLength(list) ==
    IF Len(list) < 2 THEN 0
    ELSE LegLength(list, 1).n + PathLength(Tail(list))

\* C15: calculateMissionDistance returns the sum of the distances between
\* consecutive waypoints, and 0 for fewer than two waypoints.
C15_MissionDistanceIsSumOfLegs ==
    (/\ call.fn = "calculateMissionDistance"
     /\ ~call.wps.absent
     /\ AllFinite(call.wps.list)) =>
        /\ ret = Return(Num(PathLength(call.wps.list)))
        /\ Len(call.wps.list) < 2 => ret = Return(Num(0))

\* three waypoints, legs of 3 and 2
C15_Witness ==
    /\ call.fn = "calculateMissionDistance"
    /\ Len(call.wps.list) = 3
    /\ AllFinite(call.wps.list)
    /\ LegLength(call.wps.list, 1) = Num(3)
    /\ LegLength(call.wps.list, 2) = Num(2)
    /\ ret = Return(Num(5))

GenerateOps == {"handleGenerate", "generateNoPolygon", "generateThrew",
                "autoGenerateSkipped"}

\* C16: path generation never changes the mission settings: after any
\* handleGenerate or auto-generate call the store's settings are those it held
\* when the call began; the effective field of view and the calculated speed
\* go to the copies handed to the synthesizer only.
C16_GenerateKeepsSettings ==
    last.op \in GenerateOps =>
        /\ settings = last.currentSettings
        /\ last.op = "handleGenerate" =>
            /\ last.generationSettings =
                   updateSettings(settings, [customFOV |-> EffectiveFOV(settings)])
            /\ \A key \in DOMAIN settings \ {"speed"} :
                   last.finalSettings[key] = last.generationSettings[key]
            /\ \A i \in 1..Len(waypoints) : waypoints[i].speed = last.finalSettings.speed

\* a path regenerated at a calculated speed of 1/2 m/s, the store still at 10
C16_Witness ==
    /\ last.op = "handleGenerate"
    /\ Len(waypoints) = 3
    /\ last.finalSettings.speed = Rat(1, 2)
    /\ waypoints[1].speed = Rat(1, 2)
    /\ settings.speed = 10
    /\ settings.customFOV = 600

C21_OpenDialogLevelNotSafe ==
    showFlightWarning => getWarningLevel \in {"warning", "critical"}

\* a step in which the callback of a warning check ran
WarningCheckRan == last'.op \in WarningCheckKinds /\ Len(timers') < Len(timers)

\* C22: after handleGenerateWithWarning the metrics recalculation that
\* handleGenerate scheduled runs before the warning check is raised, so the
\* check is raised for a path that was just generated: every warning check
\* that runs was set by a request that generated a path, and no metrics
\* recalculation set before it is still waiting.
C22_MetricsRunBeforeWarningCheck ==
    [][ WarningCheckRan =>
            \E i \in 1..Len(timers) :
                /\ timers' = RemoveAt(timers, i)
                /\ timers[i] = "warningCheck"
                /\ \A j \in 1..(i - 1) : timers[j] # "generateMetrics" ]_vars

\* the last handler ran handleGenerate through handleAutoGenerate
IsAutoGenerate == last.op \in GenerateOps /\ last.after = << >>

\* C23: when a settings change is followed by handleAutoGenerate in the same
\* event handler, the path is regenerated from the settings the store holds
\* after the change, not from the settings of the last render.
C23_AutoGenerateReadsStore ==
    (IsAutoGenerate /\ last.op = "handleGenerate") =>
        /\ last.currentSettings = settings
        /\ last.generationSettings = GenerationSettings(settings)
        /\ Len(waypoints) =
               Len(generatePhotogrammetryPath(last.polygon, GenerationSettings(settings)).v)
        /\ \A i \in 1..Len(waypoints) :
               /\ waypoints[i].altitude = settings.altitude
               /\ waypoints[i].gimbalPitch = settings.gimbalPitch

\* the Altitude input changed the altitude and the path was regenerated at
\* the new altitude
C23_Witness ==
    /\ IsAutoGenerate /\ last.op = "handleGenerate"
    /\ last.snapshot.altitude = 60
    /\ settings.altitude = 80
    /\ Len(waypoints) > 0
    /\ waypoints[1].altitude = 80

\* C24: the waypoints handleGenerate stores are those of a second synthesis
\* run whose speed is the max safe speed calculated from the first run's path
\* when that speed is positive and the configured speed otherwise; the field
\* of view of both runs is the preset's when the preset defines one, else the
\* custom field of view.
C24_StoredPathIsSecondRun ==
    last.op = "handleGenerate" =>
        LET cs == last.currentSettings
            preset == getDronePreset(cs.selectedDrone)
            fov == IF preset # None /\ preset[1].hfov # None
                   THEN preset[1].hfov[1] ELSE cs.customFOV
            first == generatePhotogrammetryPath(last.polygon,
                                                updateSettings(cs, [customFOV |-> fov]))
            maxSpeed == calculateMaxSpeed(Present(AsLngLat(first.v)),
                                          Rat(cs.photoInterval, 10)).v.maxSpeed
            speed == IF JsGt(maxSpeed, Num(0)) THEN maxSpeed ELSE Num(cs.speed)
            second == generatePhotogrammetryPath(
                          last.polygon, updateSettings(cs, [customFOV |-> fov, speed |-> speed]))
        IN  /\ waypoints = second.v
            /\ last.generationSettings.customFOV = fov
            /\ last.finalSettings.customFOV = fov
            /\ last.finalSettings.speed = speed

\* a path generated with the preset's 82.1 degrees while the restored custom
\* field of view is 60 degrees, at the calculated speed and not the restored 4
C24_Witness ==
    /\ last.op = "handleGenerate"
    /\ last.currentSettings.selectedDrone = "dji_mini_5_pro"
    /\ last.currentSettings.customFOV = 600
    /\ last.generationSettings.customFOV = DEFAULT_HFOV_TENTHS
    /\ last.currentSettings.speed = 4
    /\ Len(waypoints) = 2
    /\ waypoints[1].speed = Rat(1, 1)
    /\ JsGt(last.finalSettings.speed, Num(0))

\* C25: handleAutoGenerate regenerates the path only when the store holds at
\* least one waypoint and a boundary polygon exists; otherwise the stored
\* waypoints stay as they are and no metrics recalculation is scheduled.
C25_AutoGenerateNeedsPathAndPolygon ==
    [][ (last'.op \in GenerateOps /\ last'.after = << >>) =>
            \/ (Len(waypoints) > 0 /\ currentPolygon # "null")
            \/ (waypoints' = waypoints /\ timers' = timers
                /\ calculatedMaxSpeed' = calculatedMaxSpeed) ]_vars

\* the drone was changed while a polygon was drawn and no path generated yet
C25_Witness ==
    /\ last.op = "autoGenerateSkipped"
    /\ last.snapshot.selectedDrone # settings.selectedDrone
    /\ currentPolygon # "null"
    /\ waypoints = << >>
    /\ timers = << >>

C29_PendingCheckIsCleared ==
    /\ pendingWarningCheck ~> ~pendingWarningCheck
    /\ [][ last'.op = "warningEffect" => ~pendingWarningCheck' ]_vars

\* the effect has answered a check at a level other than 'safe': the dialog
\* is open and no check is pending
C29_Witness ==
    /\ last.op = "warningEffect"
    /\ ~pendingWarningCheck
    /\ showFlightWarning
    /\ getWarningLevel # "safe"

(***************************************************************************)
(* Footprint projection and path generator: properties (SpecGeometry)      *)
(***************************************************************************)
IsFootprintCall == call.fn = "calculateFootprint"
IsGeneratePathCall == call.fn = "generatePhotogrammetryPath"

ReturnedNull == ret.t = "ret" /\ ret.v = None
ReturnedPolygon == ret.t = "ret" /\ Len(ret.v) = 1 /\ ret.v[1].type = "Polygon"

\* C18: generatePhotogrammetryPath returns the empty waypoint sequence, and
\* does not throw, when the polygon feature is missing, has no geometry, or a
\* step of the generation logic fails.
C18_GeneratePathFailsEmpty ==
    (IsGeneratePathCall /\
     (\/ call.polygonFeature \in {"null", "polyNoGeometry"}
      \/ GenerationLogic(call.polygonFeature, call.settings).t = "throw"))
        => (ret.t = "ret" /\ ret.v = << >>)

\* the generation logic failed on a polygon with geometry and the caller got
\* the empty sequence
C18_Witness ==
    /\ IsGeneratePathCall
    /\ call.polygonFeature = "polyDegenerate"
    /\ GenerationLogic(call.polygonFeature, call.settings).t = "throw"
    /\ ret = Return(<< >>)

IsAbsent(x) == x.k = "undef"

\* C19 (as stated): calculateFootprint returns null without throwing whenever
\* center, altitude or hfov is absent, and returns a polygon whenever all
\* three are present.
C19_FootprintNullIffAbsent ==
    IsFootprintCall =>
        IF call.center.absent \/ IsAbsent(call.altitude) \/ IsAbsent(call.hfov)
        THEN ReturnedNull
        ELSE ReturnedPolygon

\* the arguments of the call from which every corner projects to a position
ProjectableCall ==
    /\ ~call.center.absent
    /\ IsFiniteNum(call.center.lng) /\ IsFiniteNum(call.center.lat)
    /\ IsFiniteNum(call.altitude) /\ call.altitude.n # 0
    /\ IsFiniteNum(call.hfov) /\ call.hfov.n # 0
    /\ IsFiniteNum(call.heading)
    /\ (IsAbsent(call.gimbalPitch) \/ IsFiniteNum(call.gimbalPitch))

\* C19 (amended): calculateFootprint returns null without throwing whenever
\* center is absent or altitude or hfov is absent, zero or NaN, and returns a
\* polygon whenever center has a finite longitude and latitude, altitude and
\* hfov are finite and not zero, heading is finite and the gimbal pitch is
\* absent or finite.
C19_FootprintNullOrPolygon ==
    IsFootprintCall =>
        /\ (call.center.absent \/ IsFalsy(call.altitude) \/ IsFalsy(call.hfov))
              => ReturnedNull
        /\ ProjectableCall => ReturnedPolygon

\* a call with every argument usable, the gimbal pitch left to its default,
\* returned a polygon
C19_Witness ==
    /\ IsFootprintCall
    /\ ProjectableCall
    /\ IsAbsent(call.gimbalPitch)
    /\ ReturnedPolygon

\* C20: every footprint that is not null is a closed ring of exactly five
\* positions, the corners TR, BR, BL, TL projected from center and the first
\* of them again, and carries the altitude, heading, hfov and pitch of the call.
C20_FootprintIsClosedRingOfFive ==
    (IsFootprintCall /\ ret.t = "ret" /\ ret.v # None) =>
        LET footprint == ret.v[1]
            ring == footprint.ring
        IN  /\ Len(ring) = 5
            /\ [i \in 1..4 |-> ring[i].corner] = <<"TR", "BR", "BL", "TL">>
            /\ \A i \in 1..4 : ring[i].from = [lng |-> call.center.lng,
                                               lat |-> call.center.lat]
            /\ ring[5] = ring[1]
            /\ footprint.properties.altitude = call.altitude
            /\ footprint.properties.heading = call.heading
            /\ footprint.properties.hfov = call.hfov
            /\ footprint.properties.pitch =
                   (IF IsAbsent(call.gimbalPitch) THEN Num(-90) ELSE call.gimbalPitch)

\* a footprint computed with a gimbal pitch of 0 degrees, away from the origin
C20_Witness ==
    /\ IsFootprintCall
    /\ ReturnedPolygon
    /\ call.gimbalPitch = Num(0)
    /\ call.center.lat = Num(MaxCoord)
    /\ call.heading = Num(90)

(***************************************************************************)
(* Import and export: properties (Spec, SpecRoundTrip)                     *)
(***************************************************************************)
IsPointRecord(f) == f.type = "Point"
PointRecords(file) == SelectSeq(file.features, IsPointRecord)

\* C5: export followed by import is a round trip on settings: after
\* handleDownloadConfirm has exported a mission and the package it produced
\* has been imported, the store's settings equal the settings the store held
\* when the export was performed, missionEndAction included.
C5_ExportImportRestoresSettings ==
    (last.op = "imported" /\ last.file.exportedSettings # None) =>
        settings = last.file.exportedSettings[1]

\* C6: a successful import of a file with N >= 1 point records stores exactly
\* N waypoints, one per point record and in the file's order, each with the
\* record's longitude and latitude; other records contribute no waypoint.
C6_ImportStoresPointRecordsInOrder ==
    last.op = "imported" =>
        LET records == PointRecords(last.file)
        IN  /\ Len(records) >= 1
            /\ Len(waypoints) = Len(records)
            /\ \A i \in 1..Len(records) :
                /\ waypoints[i].lng = records[i].coordinates[1]
                /\ waypoints[i].lat = records[i].coordinates[2]

\* a file of three records, one of them a line, imported as two waypoints
C6_Witness ==
    /\ last.op = "imported"
    /\ Len(last.file.features) = 3
    /\ Len(waypoints) = 2
    /\ waypoints[2].lat = 3

PerPointFields == {"altitude", "speed", "gimbalPitch", "heading", "cameraAction"}

\* C7: every per-point field (altitude, speed, gimbalPitch, heading,
\* cameraAction) present in an imported point record appears with the same
\* value on the waypoint the import stores for that record.
C7_ImportKeepsPerPointFields ==
    last.op = "imported" =>
        LET records == PointRecords(last.file)
        IN  \A i \in 1..Len(records) : \A key \in PerPointFields :
                key \in DOMAIN records[i].properties =>
                    /\ i <= Len(waypoints)
                    /\ key \in DOMAIN waypoints[i]
                    /\ waypoints[i][key] = records[i].properties[key]

C9_RejectedImportHasNoEffect ==
    [][ last'.op = "importRejected" =>
            /\ waypoints' = waypoints
            /\ settings' = settings
            /\ currentPolygon' = currentPolygon
            /\ currentMissionFilename' = currentMissionFilename
            /\ timers' = timers
            /\ calculatedMaxSpeed' = calculatedMaxSpeed
            /\ ~last'.escaped ]_vars

\* a corrupt file rejected while a mission is loaded
C9_Witness ==
    /\ last.op = "importRejected"
    /\ last.file.corrupt
    /\ Len(waypoints) > 0
    /\ currentMissionFilename # "null"

FallbackFields == {"altitude", "speed", "gimbalPitch"}

\* C10: for every imported point record that lacks altitude, speed or
\* gimbalPitch the stored waypoint takes the field from the settings current
\* in the store at the moment the imported waypoints are stored, under every
\* interleaving of the decode with settings changes or other imports.
C10_FallbackUsesCurrentSettings ==
    [][ last'.op = "imported" =>
            LET records == PointRecords(last'.file)
            IN  \A i \in 1..Len(records) : \A key \in FallbackFields :
                    key \notin DOMAIN records[i].properties =>
                        waypoints'[i][key] = settings[key] ]_vars

\* every record of the file has a geometry
AllHaveGeometry(file) ==
    \A i \in 1..Len(file.features) : file.features[i].type # "null"

DecodeCompleted == last'.op \in {"imported", "importedNothing", "importThrew"}

C28_PointlessImportChangesNothing ==
    [][ (DecodeCompleted /\ AllHaveGeometry(last'.file)
         /\ Len(PointRecords(last'.file)) = 0) =>
            /\ last'.op = "importedNothing"
            /\ waypoints' = waypoints
            /\ settings' = settings
            /\ currentPolygon' = currentPolygon
            /\ currentMissionFilename' = currentMissionFilename
            /\ timers' = timers ]_vars

\* gamma.kml (one line record, a session block with altitude 80 and polyB)
\* imported over the mission of alpha.kmz
C28_Witness ==
    /\ last.op = "importedNothing"
    /\ last.file = FileGamma
    /\ last.file.session # None
    /\ currentMissionFilename = "alpha"
    /\ Len(waypoints) = 2
    /\ settings.altitude = 60
    /\ currentPolygon = "null"

====
